---- MODULE Spec2Model ----
(***************************************************************************)
(* neqo-interop (src/neqo-interop/src/main.rs): the driver loop that feeds *)
(* a QUIC engine and a probe handler under a per-phase time budget, and    *)
(* the two-level thread fan-out (main -> run_peer -> run_test) around it.  *)
(*                                                                         *)
(* Three specifications share the variables:                               *)
(*   Spec       one probe worker (run_test) step by step, with a clock;    *)
(*   SpecLive   the same worker under fairness, the peer sending for ever; *)
(*   SpecSched  main, the run_peer threads and their run_test threads,     *)
(*              each run_test thread ending with one of its outcomes.      *)
(***************************************************************************)
EXTENDS Integers, Sequences, FiniteSets, TLC

VARIABLES
    \* ---- one probe worker (run_test) ----
    test,         \* the Test this worker runs
    pc,           \* position of the worker in run_test / process_loop
    phase,        \* "connect" (test_connect) or "scenario" (test_h9 / test_h3)
    state,        \* client.state() of the engine connection
    outPending,   \* the engine has datagrams for process_output to return
    in_dgrams,    \* process_loop's in_dgrams vector
    exiting,      \* process_loop's exiting flag
    start,        \* process_loop's start instant
    now,          \* the clock (seconds)
    recvDeadline, \* the instant the blocked recv gives up: its entry + the read timeout
    rbytes,       \* H9Handler.rbytes
    rsfin,        \* H9Handler.rsfin
    streams,      \* the handler's tracked stream ids
    loopRes,      \* what the driver loop returned: "none", "Ok", "Timed out", "Read error"
    outcome,      \* the String run_test returned ("none" before)
    emitted,      \* datagrams sent by emit_packets in the current iteration
    \* ---- history of the worker (not read by the code) ----
    phaseBegan,   \* the clock when the current driver loop was entered
    rx,           \* datagrams returned by recv, per phase
    got,          \* bytes the engine handed out through stream_recv
    untracked,    \* a handler stopped on an event for an untracked stream
    finSeen,      \* a handler read the fin of its stream
    loops,        \* driver loops entered by this worker
    steps,        \* the steps of the current iteration of the driver loop, in order
    lastRecv,     \* <<sz>> for the size the last recv returned, until the handler runs
    fed,          \* the datagrams the last process_input was handed, until the handler runs
    foreign,      \* the h9 handler went past an event naming an untracked stream
    panicAt,      \* the call that panicked ("none" before)
    \* ---- the scheduler (main, run_peer, run_test threads) ----
    args,         \* the parsed Args
    alive,        \* the process has not ended
    mainpc,       \* position of main
    mainIdx,      \* main's position in PEERS (spawn loop) or in children (join loop)
    mainChildren, \* main's children vector (peers whose thread was spawned)
    reported,     \* what main printed: <<peer, results>> per joined peer
    peerpc,       \* per peer: position of its run_peer thread
    peerIdx,      \* per peer: position in TESTS (spawn loop) or in children (join loop)
    children,     \* per peer: run_peer's children vector (tests spawned)
    results,      \* per peer: run_peer's results vector
    probes,       \* per peer and test: the run_test thread
    overtaken     \* history: a run_test thread ended while a sibling spawned before it ran

probeVars == <<test, pc, phase, state, outPending, in_dgrams, exiting, start, now,
               recvDeadline, rbytes, rsfin, streams, loopRes, outcome,
               emitted, phaseBegan, rx, got, untracked, finSeen, loops,
               steps, lastRecv, fed, foreign, panicAt>>
schedVars == <<args, alive, mainpc, mainIdx, mainChildren, reported, peerpc,
               peerIdx, children, results, probes, overtaken>>
vars == <<probeVars, schedVars>>

----------------------------------------------------------------------------
(* Bounds of the model *)

MaxClock == 7     \* the clock stops advancing here
MaxRx == 2        \* datagrams recv returns per driver loop
MaxEvents == 2    \* events one events() call returns
MaxResp == 2      \* bytes of response the peer offers in all
MaxOut == 1       \* datagrams one process_output returns
NumPeers == 2     \* entries of PEERS the scheduler runs over
MaxProbes == 4    \* run_test threads one command line starts

(* Program constants *)

Timeout == 5      \* Duration::new(5, 0)
BufLen == 2048    \* buf = [0u8; 2048]
DataCap == 4000   \* data = vec![0; 4000]
ClientStream == 0 \* the id stream_create / fetch returns for the probe's stream
PeerStream == 3   \* a stream the probe did not open

TESTS == <<"connect", "h9", "h3">>
PEERS == <<"quant", "quicly", "local", "applequic", "f5", "msft", "mvfst", "google">>

States == {"Connecting", "Connected", "Closing", "Closed"}

Min(a, b) == IF a < b THEN a ELSE b

RECURSIVE SeqsUpTo(_, _)
SeqsUpTo(S, n) ==
    IF n = 0 THEN {<<>>}
    ELSE LET shorter == SeqsUpTo(S, n - 1)
         IN shorter \cup {Append(s, x) : s \in {t \in shorter : Len(t) = n - 1}, x \in S}

----------------------------------------------------------------------------
(* The engine, as the probe sees it *)

\* states process_input can leave the connection in after a datagram
EngineNext(st) ==
    CASE st = "Connecting" -> {"Connecting", "Connected", "Closing", "Closed"}
      [] st = "Connected" -> {"Connected", "Closing", "Closed"}
      [] st = "Closing" -> {"Closing", "Closed"}
      [] OTHER -> {"Closed"}

Ev(k, s, a, f, e) == [kind |-> k, stream_id |-> s, avail |-> a, fin |-> f, err |-> e]

\* what client.events() can hold for an hq connection with the probe's stream open
ConnEvents ==
    {Ev("RecvStreamReadable", ClientStream, a, f, "none") : a \in 0..MaxResp, f \in BOOLEAN}
    \cup {Ev("RecvStreamReadable", ClientStream, 0, FALSE, "read"),
          Ev("RecvStreamReadable", PeerStream, 0, FALSE, "none"),
          Ev("SendStreamWritable", ClientStream, 0, FALSE, "none"),
          Ev("SendStreamWritable", PeerStream, 0, FALSE, "none"),
          Ev("Other", ClientStream, 0, FALSE, "none")}

\* what h3.events() can hold
Http3Events ==
    {Ev("HeaderReady", s, 0, FALSE, "none") : s \in {ClientStream, PeerStream}}
    \cup {Ev("DataReadable", ClientStream, 0, f, "none") : f \in BOOLEAN}
    \cup {Ev("DataReadable", ClientStream, 0, FALSE, "read"),
          Ev("DataReadable", ClientStream, 0, FALSE, "utf8"),
          Ev("DataReadable", PeerStream, 0, FALSE, "none"),
          Ev("Other", ClientStream, 0, FALSE, "none")}

RECURSIVE SumAvail(_)
SumAvail(evs) == IF evs = <<>> THEN 0 ELSE Head(evs).avail + SumAvail(Tail(evs))

\* the event batches one events() call can return when g bytes were handed out before
EventBatches(E, g) == {evs \in SeqsUpTo(E, MaxEvents) : SumAvail(evs) <= MaxResp - g}

\* stream_recv(stream_id, &mut data) with a buffer of cap bytes
StreamRecv(ev, cap) ==
    [sz |-> Min(ev.avail, cap), fin |-> ev.fin /\ ev.avail <= cap]

----------------------------------------------------------------------------
(* The handlers *)

\* a PreConnectHandler that stops at once
PreConnectHandleStops(st) == FALSE

\* PreConnectHandler::handle: TRUE = continue
PreConnectHandle(st) == ~(st \in {"Connected", "Closing"})

HandlerStart(rb, fin) ==
    [rbytes |-> rb, rsfin |-> fin, cap |-> DataCap, got |-> 0, closed |-> FALSE,
     panicked |-> FALSE, cont |-> TRUE, untracked |-> FALSE, fin |-> FALSE,
     foreign |-> FALSE]

\* H9Handler::handle: the for loop over client.events()
RECURSIVE H9Events(_, _, _)
H9Events(evs, trk, h) ==
    IF evs = <<>> THEN h
    ELSE LET ev == Head(evs) IN
         IF ev.kind = "RecvStreamReadable"
         THEN IF ev.stream_id \notin trk
              THEN [h EXCEPT !.cont = FALSE, !.untracked = TRUE]
              ELSE IF ev.err # "none"
              THEN [h EXCEPT !.panicked = TRUE]
              ELSE LET r == StreamRecv(ev, h.cap)
                       h1 == [h EXCEPT !.cap = r.sz, !.rbytes = @ + r.sz, !.got = @ + r.sz]
                   IN IF r.fin
                      THEN [h1 EXCEPT !.closed = TRUE, !.rsfin = TRUE, !.fin = TRUE,
                                      !.cont = FALSE]
                      ELSE H9Events(Tail(evs), trk, h1)
         ELSE \* SendStreamWritable { stream_id } and _: printed, whatever the stream
              H9Events(Tail(evs), trk,
                       IF ev.stream_id \notin trk THEN [h EXCEPT !.foreign = TRUE] ELSE h)

H9Handle(evs, trk, rb, fin) == H9Events(evs, trk, HandlerStart(rb, fin))

\* H3Handler::handle: the for loop over self.h3.events()
RECURSIVE H3Events(_, _, _)
H3Events(evs, trk, h) ==
    IF evs = <<>> THEN h
    ELSE LET ev == Head(evs) IN
         IF ev.kind = "HeaderReady"
         THEN IF ev.stream_id \notin trk
              THEN [h EXCEPT !.cont = FALSE, !.untracked = TRUE]
              ELSE H3Events(Tail(evs), trk, h)
         ELSE IF ev.kind = "DataReadable"
         THEN IF ev.stream_id \notin trk
              THEN [h EXCEPT !.cont = FALSE, !.untracked = TRUE]
              ELSE IF ev.err # "none"
              THEN [h EXCEPT !.panicked = TRUE]
              ELSE IF ev.fin
              THEN [h EXCEPT !.closed = TRUE, !.fin = TRUE, !.cont = FALSE]
              ELSE H3Events(Tail(evs), trk, h)
         ELSE H3Events(Tail(evs), trk, h)

H3Handle(evs, trk) == H3Events(evs, trk, HandlerStart(0, FALSE))

----------------------------------------------------------------------------
(* What the callers make of the driver loop's result *)

\* format!("ERROR: {}", e)
ErrorFmt(e) ==
    CASE e = "Timed out" -> "ERROR: Timed out"
      [] e = "Read error" -> "ERROR: Read error"
      [] OTHER -> "ERROR: ?"

\* format!("{:?}", st): the variant's name
StateFmt(st) == st

\* a test_connect that takes every state the loop returns for a connection
TestConnectResultAnyState(res, st) ==
    IF res # "Ok" THEN [ok |-> FALSE, e |-> ErrorFmt(res)]
    ELSE [ok |-> TRUE, e |-> "none"]

\* test_connect after process_loop: Ok(client) or Err(text)
TestConnectResult(res, st) ==
    IF res # "Ok" THEN [ok |-> FALSE, e |-> ErrorFmt(res)]
    ELSE IF st = "Connected" THEN [ok |-> TRUE, e |-> "none"]
    ELSE [ok |-> FALSE, e |-> StateFmt(st)]

\* a test_h9 without the empty-response check
TestH9OutcomeNoEmpty(res, rb, fin) ==
    IF res # "Ok" THEN ErrorFmt(res)
    ELSE IF ~fin THEN "No FIN"
    ELSE "OK"

\* a test_h9 that looks at the handler before the loop's error
TestH9OutcomeErrLast(res, rb, fin) ==
    IF rb = 0 THEN "Empty response"
    ELSE IF ~fin THEN "No FIN"
    ELSE IF res # "Ok" THEN ErrorFmt(res)
    ELSE "OK"

\* test_h9 after process_loop, then run_test's match on it
TestH9Outcome(res, rb, fin) ==
    IF res # "Ok" THEN ErrorFmt(res)
    ELSE IF rb = 0 THEN "Empty response"
    ELSE IF ~fin THEN "No FIN"
    ELSE "OK"

\* a test_h3 that drops the loop's error
TestH3OutcomeDropsErr(res) == "OK"

\* test_h3 after process_loop_h3, then run_test's match on it
TestH3Outcome(res) == IF res # "Ok" THEN ErrorFmt(res) ELSE "OK"

\* a loop that keeps the start of the loop before it: one budget for both phases
LoopStartShared(clock, previous) == previous

\* let start = Instant::now()
LoopStart(clock, previous) == clock

\* *timeout - spent
ReadTimeout(timeout, spent) == timeout - spent

\* a closed check that looks for Closing
ClosedReturnsOnClosing(st) == st = "Closing"

\* if let State::Closed(..) = client.state(): TRUE = the loop returns
ClosedReturns(st) == st = "Closed"

\* a loop that tests exiting right after the handler
AfterHandleStops == "exit_check"

\* what follows handler.handle in the loop body: process_output and emit_packets
AfterHandle == "output"

\* Datagram::new(nctx.remote_addr.clone(), nctx.local_addr.clone(), &buf[..sz])
NewDatagram(sz) == [src |-> "remote", dst |-> "local", len |-> sz]

\* size checks without the continue on a full buffer
RecvPushFull(v, sz) == IF sz > 0 THEN Append(v, NewDatagram(sz)) ELSE v

\* the size checks after recv: in_dgrams after a read of sz bytes
RecvPush(v, sz) ==
    IF sz = BufLen THEN v
    ELSE IF sz > 0 THEN Append(v, NewDatagram(sz))
    ELSE v

\* a feed that hands the datagrams over and keeps them
DrainKeeps(v) == v

\* in_dgrams.drain(..): what is left in the vector
Drain(v) == <<>>

----------------------------------------------------------------------------
(* One probe worker: run_test *)

Panic == pc' = "panicked"

PanicAt(call) == Panic /\ panicAt' = call

\* process_loop / process_loop_h3 up to the loop: buf, in_dgrams, start
EnterLoop(ph) ==
    /\ phase' = ph
    /\ in_dgrams' = <<>>
    /\ start' = LoopStart(now, start)
    /\ phaseBegan' = now
    /\ loops' = loops + 1
    /\ exiting' = FALSE
    /\ loopRes' = "none"
    /\ steps' = <<>>
    /\ lastRecv' = <<>>
    /\ fed' = <<>>
    /\ pc' = "feed"

\* run_test: bind and connect the socket; test_connect: new_client, enter the loop
RunTestStart ==
    /\ pc = "run_test"
    /\ \/ /\ EnterLoop("connect")
          /\ outPending' = TRUE
          /\ UNCHANGED <<test, state, now, recvDeadline, rbytes, rsfin,
                         streams, outcome, emitted, rx, got, untracked, finSeen,
                         foreign, panicAt>>
       \/ /\ PanicAt("bind")
          /\ UNCHANGED <<test, phase, state, outPending, in_dgrams, exiting, start, now,
                         recvDeadline, rbytes, rsfin, streams, loopRes,
                         outcome, emitted, phaseBegan, rx, got, untracked,
                         finSeen, loops, steps, lastRecv, fed, foreign>>
    /\ UNCHANGED schedVars

\* client.process_input(in_dgrams.drain(..), now())
Feed ==
    /\ pc = "feed"
    /\ IF in_dgrams = <<>>
       THEN UNCHANGED <<state, outPending>>
       ELSE /\ state' \in EngineNext(state)
            /\ outPending' \in {outPending, TRUE}
    /\ fed' = in_dgrams
    /\ in_dgrams' = Drain(in_dgrams)
    /\ emitted' = 0
    /\ steps' = <<"feed">>
    /\ pc' = "closed_check"
    /\ UNCHANGED <<test, phase, exiting, start, now, recvDeadline, rbytes,
                   rsfin, streams, loopRes, outcome, phaseBegan, rx, got, untracked,
                   finSeen, loops, lastRecv, foreign, panicAt>>
    /\ UNCHANGED schedVars

\* if let State::Closed(..) = client.state() { return Ok(..) }
ClosedCheck ==
    /\ pc = "closed_check"
    /\ IF ClosedReturns(state)
       THEN /\ loopRes' = "Ok"
            /\ pc' = "loop_ret"
            /\ UNCHANGED <<lastRecv, fed>>
       ELSE /\ loopRes' = loopRes
            /\ pc' = "handle"
            /\ lastRecv' = <<>>
            /\ fed' = <<>>
    /\ steps' = Append(steps, "closed_check")
    /\ UNCHANGED <<test, phase, state, outPending, in_dgrams, exiting, start, now,
                   recvDeadline, rbytes, rsfin, streams, outcome, emitted,
                   phaseBegan, rx, got, untracked, finSeen, loops, foreign, panicAt>>
    /\ UNCHANGED schedVars

\* let exiting = !handler.handle(client), with PreConnectHandler
HandlePreConnect ==
    /\ pc = "handle"
    /\ phase = "connect"
    /\ exiting' = ~PreConnectHandle(state)
    /\ pc' = AfterHandle
    /\ steps' = Append(steps, "handle")
    /\ UNCHANGED <<test, phase, state, outPending, in_dgrams, start, now, recvDeadline, rbytes, rsfin, streams, loopRes, outcome, emitted,
                   phaseBegan, rx, got, untracked, finSeen, loops, lastRecv, fed,
                   foreign, panicAt>>
    /\ UNCHANGED schedVars

\* the effect of a scenario handler's run h on the worker
ApplyHandler(h) ==
    IF h.panicked
    THEN /\ PanicAt("read")
         /\ UNCHANGED <<exiting, rbytes, rsfin, state, outPending, got, untracked, finSeen,
                        foreign>>
    ELSE /\ pc' = AfterHandle
         /\ panicAt' = panicAt
         /\ foreign' = (foreign \/ h.foreign)
         /\ exiting' = ~h.cont
         /\ rbytes' = h.rbytes
         /\ rsfin' = h.rsfin
         /\ got' = got + h.got
         /\ untracked' = (untracked \/ h.untracked)
         /\ finSeen' = (finSeen \/ h.fin)
         /\ state' = IF h.closed THEN "Closing" ELSE state
         /\ outPending' = (outPending \/ h.closed)

\* let exiting = !handler.handle(client), with H9Handler
HandleH9 ==
    /\ pc = "handle"
    /\ phase = "scenario"
    /\ test = "h9"
    /\ \E evs \in EventBatches(ConnEvents, got) :
          ApplyHandler(H9Handle(evs, streams, rbytes, rsfin))
    /\ steps' = Append(steps, "handle")
    /\ UNCHANGED <<test, phase, in_dgrams, start, now, recvDeadline, streams,
                   loopRes, outcome, emitted, phaseBegan, rx, loops, lastRecv, fed>>
    /\ UNCHANGED schedVars

\* let exiting = !handler.handle(), with H3Handler
HandleH3 ==
    /\ pc = "handle"
    /\ phase = "scenario"
    /\ test = "h3"
    /\ \E evs \in EventBatches(Http3Events, got) :
          ApplyHandler(H3Handle(evs, streams))
    /\ steps' = Append(steps, "handle")
    /\ UNCHANGED <<test, phase, in_dgrams, start, now, recvDeadline, streams,
                   loopRes, outcome, emitted, phaseBegan, rx, loops, lastRecv, fed>>
    /\ UNCHANGED schedVars

\* client.process_output(now()); emit_packets(&nctx.socket, &out_dgrams)
Output ==
    /\ pc = "output"
    /\ \E n \in (IF outPending THEN 1..MaxOut ELSE {0}) :
          \/ /\ emitted' = n
             /\ pc' = "exit_check"
             /\ panicAt' = panicAt
          \/ \E k \in 0..(n - 1) :
                /\ emitted' = k
                /\ PanicAt("send")
    /\ outPending' = FALSE
    /\ steps' = steps \o <<"drain", "send">>
    /\ UNCHANGED <<test, phase, state, in_dgrams, exiting, start, now, recvDeadline, rbytes, rsfin, streams, loopRes, outcome, phaseBegan,
                   rx, got, untracked, finSeen, loops, lastRecv, fed, foreign>>
    /\ UNCHANGED schedVars

\* if exiting { return Ok(client.state().clone()) }
ExitCheck ==
    /\ pc = "exit_check"
    /\ IF exiting
       THEN loopRes' = "Ok" /\ pc' = "loop_ret"
       ELSE loopRes' = loopRes /\ pc' = "budget"
    /\ steps' = Append(steps, "exit_check")
    /\ UNCHANGED <<test, phase, state, outPending, in_dgrams, exiting, start, now,
                   recvDeadline, rbytes, rsfin, streams, outcome, emitted,
                   phaseBegan, rx, got, untracked, finSeen, loops, lastRecv, fed,
                   foreign, panicAt>>
    /\ UNCHANGED schedVars

\* spent = Instant::now() - start; the timeout check; set_read_timeout; recv is entered
Budget ==
    /\ pc = "budget"
    /\ LET spent == now - start IN
       IF spent > Timeout
       THEN /\ loopRes' = "Timed out"
            /\ pc' = "loop_ret"
            /\ UNCHANGED <<recvDeadline, panicAt>>
       ELSE IF ReadTimeout(Timeout, spent) = 0
       THEN \* set_read_timeout(Some(0)) is an Err: expect("Read timeout") panics
            /\ PanicAt("set_read_timeout")
            /\ UNCHANGED <<loopRes, recvDeadline>>
       ELSE /\ recvDeadline' = now + ReadTimeout(Timeout, spent)
            /\ pc' = "recv"
            /\ UNCHANGED <<loopRes, panicAt>>
    /\ steps' = Append(steps, "budget")
    /\ UNCHANGED <<test, phase, state, outPending, in_dgrams, exiting, start, now,
                   rbytes, rsfin, streams, outcome, emitted, phaseBegan, rx, got,
                   untracked, finSeen, loops, lastRecv, fed, foreign>>
    /\ UNCHANGED schedVars

RecvSizes == {0, 1, BufLen - 1, BufLen}

\* nctx.socket.recv returns Ok(sz); the size checks that follow it
RecvData ==
    /\ pc = "recv"
    /\ now <= recvDeadline
    /\ rx[phase] < MaxRx
    /\ \E sz \in RecvSizes :
          /\ in_dgrams' = RecvPush(in_dgrams, sz)
          /\ lastRecv' = <<sz>>
    /\ rx' = [rx EXCEPT ![phase] = @ + 1]
    /\ steps' = Append(steps, "recv")
    /\ pc' = "feed"
    /\ UNCHANGED <<test, phase, state, outPending, exiting, start, now, recvDeadline, rbytes, rsfin, streams, loopRes, outcome, emitted,
                   phaseBegan, got, untracked, finSeen, loops, fed, foreign, panicAt>>
    /\ UNCHANGED schedVars

\* nctx.socket.recv returns Err(WouldBlock): the read timeout ran out
RecvTimeout ==
    /\ pc = "recv"
    /\ now >= recvDeadline
    /\ loopRes' = "Timed out"
    /\ pc' = "loop_ret"
    /\ steps' = Append(steps, "recv")
    /\ UNCHANGED <<test, phase, state, outPending, in_dgrams, exiting, start, now,
                   recvDeadline, rbytes, rsfin, streams, outcome, emitted,
                   phaseBegan, rx, got, untracked, finSeen, loops, lastRecv, fed,
                   foreign, panicAt>>
    /\ UNCHANGED schedVars

\* nctx.socket.recv returns another Err
RecvError ==
    /\ pc = "recv"
    /\ loopRes' = "Read error"
    /\ pc' = "loop_ret"
    /\ steps' = Append(steps, "recv")
    /\ UNCHANGED <<test, phase, state, outPending, in_dgrams, exiting, start, now,
                   recvDeadline, rbytes, rsfin, streams, outcome, emitted,
                   phaseBegan, rx, got, untracked, finSeen, loops, lastRecv, fed,
                   foreign, panicAt>>
    /\ UNCHANGED schedVars

\* test_connect after the loop, and run_test's match on its result
TestConnectReturn ==
    /\ pc = "loop_ret"
    /\ phase = "connect"
    /\ LET r == TestConnectResult(loopRes, state) IN
       IF r.ok
       THEN pc' = "scenario" /\ outcome' = outcome
       ELSE pc' = "done" /\ outcome' = r.e
    /\ UNCHANGED <<test, phase, state, outPending, in_dgrams, exiting, start, now,
                   recvDeadline, rbytes, rsfin, streams, loopRes, emitted,
                   phaseBegan, rx, got, untracked, finSeen, loops, steps, lastRecv,
                   fed, foreign, panicAt>>
    /\ UNCHANGED schedVars

\* run_test: Test::Connect => return (test, "OK")
ScenarioConnect ==
    /\ pc = "scenario"
    /\ test = "connect"
    /\ outcome' = "OK"
    /\ pc' = "done"
    /\ UNCHANGED <<test, phase, state, outPending, in_dgrams, exiting, start, now,
                   recvDeadline, rbytes, rsfin, streams, loopRes, emitted,
                   phaseBegan, rx, got, untracked, finSeen, loops, steps, lastRecv,
                   fed, foreign, panicAt>>
    /\ UNCHANGED schedVars

\* test_h9 / test_h3 up to the loop: open the stream, queue the request, track the id
ScenarioStart ==
    /\ pc = "scenario"
    /\ test \in {"h9", "h3"}
    /\ \/ /\ EnterLoop("scenario")
          /\ streams' = {ClientStream}
          /\ outPending' = TRUE
          /\ rbytes' = 0
          /\ rsfin' = FALSE
          /\ UNCHANGED <<test, state, now, recvDeadline, outcome, emitted,
                         rx, got, untracked, finSeen, foreign, panicAt>>
       \/ \* stream_create / stream_send / fetch returned Err: unwrap panics
          /\ PanicAt("stream")
          /\ UNCHANGED <<test, phase, state, outPending, in_dgrams, exiting, start, now,
                         recvDeadline, rbytes, rsfin, streams, loopRes,
                         outcome, emitted, phaseBegan, rx, got, untracked,
                         finSeen, loops, steps, lastRecv, fed, foreign>>
    /\ UNCHANGED schedVars

\* test_h9 / test_h3 after the loop, and run_test's match on the result
ScenarioReturn ==
    /\ pc = "loop_ret"
    /\ phase = "scenario"
    /\ outcome' = IF test = "h9" THEN TestH9Outcome(loopRes, rbytes, rsfin)
                  ELSE TestH3Outcome(loopRes)
    /\ pc' = "done"
    /\ UNCHANGED <<test, phase, state, outPending, in_dgrams, exiting, start, now,
                   recvDeadline, rbytes, rsfin, streams, loopRes, emitted,
                   phaseBegan, rx, got, untracked, finSeen, loops, steps, lastRecv,
                   fed, foreign, panicAt>>
    /\ UNCHANGED schedVars

\* time passes; a blocked recv returns no later than its read timeout
Tick ==
    /\ pc \notin {"done", "panicked"}
    /\ now < MaxClock
    /\ pc = "recv" => now < recvDeadline
    /\ now' = now + 1
    /\ UNCHANGED <<test, pc, phase, state, outPending, in_dgrams, exiting, start,
                   recvDeadline, rbytes, rsfin, streams, loopRes, outcome,
                   emitted, phaseBegan, rx, got, untracked, finSeen, loops, steps,
                   lastRecv, fed, foreign, panicAt>>
    /\ UNCHANGED schedVars

SchedIdle ==
    /\ args = [include |-> {}, exclude |-> {}, include_tests |-> {}, exclude_tests |-> {}]
    /\ alive = FALSE
    /\ mainpc = "idle"
    /\ mainIdx = 0
    /\ mainChildren = <<>>
    /\ reported = <<>>
    /\ peerpc = <<>>
    /\ peerIdx = <<>>
    /\ children = <<>>
    /\ results = <<>>
    /\ probes = <<>>
    /\ overtaken = FALSE

ProbeStart(t, p) ==
    /\ test = t
    /\ pc = p
    /\ phase = "connect"
    /\ state = "Connecting"
    /\ outPending = FALSE
    /\ in_dgrams = <<>>
    /\ exiting = FALSE
    /\ start = 0
    /\ now = 0
    /\ recvDeadline = 0
    /\ rbytes = 0
    /\ rsfin = FALSE
    /\ streams = {}
    /\ loopRes = "none"
    /\ outcome = "none"
    /\ emitted = 0
    /\ phaseBegan = 0
    /\ rx = [connect |-> 0, scenario |-> 0]
    /\ got = 0
    /\ untracked = FALSE
    /\ finSeen = FALSE
    /\ loops = 0
    /\ steps = <<>>
    /\ lastRecv = <<>>
    /\ fed = <<>>
    /\ foreign = FALSE
    /\ panicAt = "none"

Init ==
    /\ \E t \in {TESTS[i] : i \in 1..Len(TESTS)} : ProbeStart(t, "run_test")
    /\ SchedIdle

Next ==
    \/ RunTestStart
    \/ Feed
    \/ ClosedCheck
    \/ HandlePreConnect
    \/ HandleH9
    \/ HandleH3
    \/ Output
    \/ ExitCheck
    \/ Budget
    \/ RecvData
    \/ RecvTimeout
    \/ RecvError
    \/ TestConnectReturn
    \/ ScenarioConnect
    \/ ScenarioStart
    \/ ScenarioReturn
    \/ Tick

Spec == Init /\ [][Next]_vars

\* nctx.socket.recv returns Ok(sz) once more after MaxRx reads: a peer that keeps
\* sending (the count of reads stays at MaxRx)
RecvMore ==
    /\ pc = "recv"
    /\ now <= recvDeadline
    /\ rx[phase] = MaxRx
    /\ \E sz \in RecvSizes :
          /\ in_dgrams' = RecvPush(in_dgrams, sz)
          /\ lastRecv' = <<sz>>
    /\ steps' = Append(steps, "recv")
    /\ pc' = "feed"
    /\ UNCHANGED <<test, phase, state, outPending, exiting, start, now, recvDeadline, rbytes, rsfin, streams, loopRes, outcome, emitted,
                   phaseBegan, rx, got, untracked, finSeen, loops, fed, foreign, panicAt>>
    /\ UNCHANGED schedVars

\* the steps of the worker's own thread
ThreadStep ==
    \/ RunTestStart
    \/ Feed
    \/ ClosedCheck
    \/ HandlePreConnect
    \/ HandleH9
    \/ HandleH3
    \/ Output
    \/ ExitCheck
    \/ Budget
    \/ TestConnectReturn
    \/ ScenarioConnect
    \/ ScenarioStart
    \/ ScenarioReturn

NextLive ==
    \/ Next
    \/ RecvMore

\* the worker with a peer that may send for ever: the thread is scheduled, the
\* clock advances, and a recv whose read timeout has run out returns
SpecLive ==
    /\ Init
    /\ [][NextLive]_vars
    /\ WF_vars(ThreadStep)
    /\ WF_vars(Tick)
    /\ WF_vars(RecvTimeout)

----------------------------------------------------------------------------
(* The scheduler: main, run_peer and the run_test threads *)

\* the entries of PEERS main's loop runs over
PeerTable == SubSeq(PEERS, 2, 1 + NumPeers)
PeerSet == {PeerTable[i] : i \in 1..Len(PeerTable)}
TestSet == {TESTS[i] : i \in 1..Len(TESTS)}

\* a filter in which include wins over exclude
SelectedIncludeWins(include, exclude, label) ==
    IF include # {} THEN label \in include ELSE label \notin exclude

\* the two filter ifs of main's and run_peer's spawn loops: TRUE = not skipped
Selected(include, exclude, label) ==
    /\ ~(include # {} /\ label \notin include)
    /\ ~(label \in exclude)

\* the Strings run_test can return for a test
Outcomes(t) ==
    {"ERROR: Timed out", "ERROR: Read error", "Closing", "Closed", "OK"}
    \cup (IF t = "h9" THEN {"Empty response", "No FIN"} ELSE {})

\* the Strings the run_test threads of the scheduler return: run_peer and main
\* never look into the String, so two of Outcomes(t) stand for all
RunTestOutcomes(t) ==
    IF t = "h9" THEN {"OK", "Empty response"} ELSE {"OK", "ERROR: Timed out"}

\* results.insert(0, e)
PushFront(v, e) == <<e>> \o v

\* results.push(e)
Push(v, e) == Append(v, e)

\* a join that takes the return value of every child, as an unwrap would
JoinResultUnwrap(child0, thread) == thread.ret

\* a join that labels a crash with the first test
JoinResultFirstLabel(child0, thread) ==
    IF thread.st = "returned" THEN thread.ret ELSE <<TESTS[1], "CRASHED">>

\* run_peer's match on child.1.join(): the entry pushed for child <<child0, thread>>
JoinResult(child0, thread) ==
    IF thread.st = "returned" THEN thread.ret ELSE <<child0, "CRASHED">>

\* the command lines the model runs
IncludeChoices == {{}, {"local"}}
ExcludeChoices == {{}, {"local"}}
IncludeTestsChoices == {{}, {"connect", "h3"}}
ExcludeTestsChoices == {{}, {"h3"}}

\* the run_test threads a command line starts
ProbeCount(a) ==
    Cardinality({p \in PeerSet : Selected(a.include, a.exclude, p)})
    * Cardinality({t \in TestSet : Selected(a.include_tests, a.exclude_tests, t)})

CommandLines ==
    {a \in [include : IncludeChoices, exclude : ExcludeChoices,
            include_tests : IncludeTestsChoices, exclude_tests : ExcludeTestsChoices] :
        ProbeCount(a) <= MaxProbes}

\* u stands before t in the vector v
Before(v, u, t) ==
    \E i, j \in 1..Len(v) : i < j /\ v[i] = u /\ v[j] = t

\* no socket and no engine connection
NoChannel == [sock |-> <<>>, conn |-> <<>>]

\* a channel made once per peer and handed to each of its run_test threads
NewChannelPerPeer(p, t) == [sock |-> <<p>>, conn |-> <<p>>]

\* run_test: the UdpSocket it binds; test_connect: the Connection of new_client.
\* Each call makes its own: they are named by the call that made them
NewChannel(p, t) == [sock |-> <<p, t>>, conn |-> <<p, t>>]

\* the driver loop entered with &nctx and the connection: process_loop(nctx, client, ..)
LoopOn(name, chan) == [loop |-> name, chan |-> chan]

\* the Strings a run_test thread returns from its Connectivity phase (chan held,
\* one loop run) and from its scenario phase
PhaseOutcomes(t, ran) ==
    IF Len(ran) = 2 THEN RunTestOutcomes(t)
    ELSE IF t = "connect" THEN RunTestOutcomes(t)
    ELSE {"ERROR: Timed out"}

\* chan: the socket and connection the thread made; ran: the driver loops it
\* entered, the last one running while the thread runs
NoThread == [st |-> "none", ret |-> <<>>, chan |-> NoChannel, ran |-> <<>>]

\* main's spawn loop, one peer of PEERS
MainSpawn ==
    /\ alive
    /\ mainpc = "spawn"
    /\ LET p == PeerTable[mainIdx]
           last == mainIdx = Len(PeerTable)
       IN /\ IF Selected(args.include, args.exclude, p)
             THEN /\ mainChildren' = Append(mainChildren, p)
                  /\ peerpc' = [peerpc EXCEPT ![p] = "spawn"]
             ELSE UNCHANGED <<mainChildren, peerpc>>
          /\ mainpc' = IF last THEN "join" ELSE "spawn"
          /\ mainIdx' = IF last THEN 1 ELSE mainIdx + 1
    /\ UNCHANGED <<args, alive, reported, peerIdx, children, results, probes, overtaken>>
    /\ UNCHANGED probeVars

\* main's join loop, one child: child.1.join().unwrap() and the eprintln
MainJoin ==
    /\ alive
    /\ mainpc = "join"
    /\ mainIdx <= Len(mainChildren)
    /\ LET p == mainChildren[mainIdx] IN
       /\ peerpc[p] \in {"returned", "panicked"}
       /\ IF peerpc[p] = "returned"
          THEN /\ reported' = Append(reported, <<p, results[p]>>)
               /\ mainIdx' = mainIdx + 1
               /\ UNCHANGED <<mainpc, alive>>
          ELSE /\ mainpc' = "panicked"
               /\ alive' = FALSE
               /\ UNCHANGED <<reported, mainIdx>>
    /\ UNCHANGED <<args, mainChildren, peerpc, peerIdx, children, results, probes,
                   overtaken>>
    /\ UNCHANGED probeVars

\* main returns: the process ends
MainExit ==
    /\ alive
    /\ mainpc = "join"
    /\ mainIdx > Len(mainChildren)
    /\ mainpc' = "exited"
    /\ alive' = FALSE
    /\ UNCHANGED <<args, mainIdx, mainChildren, reported, peerpc, peerIdx, children,
                   results, probes, overtaken>>
    /\ UNCHANGED probeVars

\* run_peer's spawn loop, one test of TESTS
PeerSpawn(p) ==
    /\ alive
    /\ peerpc[p] = "spawn"
    /\ LET t == TESTS[peerIdx[p]]
           last == peerIdx[p] = Len(TESTS)
       IN \/ /\ IF Selected(args.include_tests, args.exclude_tests, t)
                THEN /\ children' = [children EXCEPT ![p] = Append(@, t)]
                     /\ probes' = [probes EXCEPT ![p][t] = [NoThread EXCEPT !.st = "running"]]
                ELSE UNCHANGED <<children, probes>>
             /\ peerpc' = [peerpc EXCEPT ![p] = IF last THEN "join" ELSE "spawn"]
             /\ peerIdx' = [peerIdx EXCEPT ![p] = IF last THEN 1 ELSE @ + 1]
          \/ \* thread::spawn panics when the OS gives no thread
             /\ Selected(args.include_tests, args.exclude_tests, t)
             /\ peerpc' = [peerpc EXCEPT ![p] = "panicked"]
             /\ UNCHANGED <<children, probes, peerIdx>>
    /\ UNCHANGED <<args, alive, mainpc, mainIdx, mainChildren, reported, results,
                   overtaken>>
    /\ UNCHANGED probeVars

\* run_peer's join loop, one child: match child.1.join()
PeerJoin(p) ==
    /\ alive
    /\ peerpc[p] = "join"
    /\ peerIdx[p] <= Len(children[p])
    /\ LET t == children[p][peerIdx[p]] IN
       /\ probes[p][t].st \in {"returned", "panicked"}
       /\ results' = [results EXCEPT ![p] = Push(@, JoinResult(t, probes[p][t]))]
    /\ peerIdx' = [peerIdx EXCEPT ![p] = @ + 1]
    /\ UNCHANGED <<args, alive, mainpc, mainIdx, mainChildren, reported, peerpc,
                   children, probes, overtaken>>
    /\ UNCHANGED probeVars

\* run_peer after the join loop: println!("Tests for {} complete ..."); results
PeerReturn(p) ==
    /\ alive
    /\ peerpc[p] = "join"
    /\ peerIdx[p] > Len(children[p])
    /\ \/ peerpc' = [peerpc EXCEPT ![p] = "returned"]
       \/ \* println! panics when stdout cannot be written
          peerpc' = [peerpc EXCEPT ![p] = "panicked"]
    /\ UNCHANGED <<args, alive, mainpc, mainIdx, mainChildren, reported, peerIdx,
                   children, results, probes, overtaken>>
    /\ UNCHANGED probeVars

\* run_test binds its socket; test_connect makes the connection and enters
\* process_loop with them
RunTestConnect(p, t) ==
    /\ alive
    /\ probes[p][t].st = "running"
    /\ probes[p][t].ran = <<>>
    /\ probes' = [probes EXCEPT ![p][t].chan = NewChannel(p, t),
                                ![p][t].ran = <<LoopOn("connect", NewChannel(p, t))>>]
    /\ UNCHANGED <<args, alive, mainpc, mainIdx, mainChildren, reported, peerpc,
                   peerIdx, children, results, overtaken>>
    /\ UNCHANGED probeVars

\* test_connect returned Ok(client): test_h9(&nctx, &mut client) or
\* test_h3(&nctx, peer, client) enters the second driver loop
RunTestScenario(p, t) ==
    /\ alive
    /\ probes[p][t].st = "running"
    /\ Len(probes[p][t].ran) = 1
    /\ t # "connect"
    /\ probes' = [probes EXCEPT ![p][t].ran = Append(@, LoopOn("scenario", probes[p][t].chan))]
    /\ UNCHANGED <<args, alive, mainpc, mainIdx, mainChildren, reported, peerpc,
                   peerIdx, children, results, overtaken>>
    /\ UNCHANGED probeVars

\* a run_test thread ends: it returns (test, outcome) or panics; its socket and
\* connection are dropped
RunTest(p, t) ==
    /\ alive
    /\ probes[p][t].st = "running"
    /\ \/ /\ probes[p][t].ran # <<>>
          /\ \E o \in PhaseOutcomes(t, probes[p][t].ran) :
                probes' = [probes EXCEPT ![p][t] =
                              [NoThread EXCEPT !.st = "returned", !.ret = <<t, o>>]]
       \/ probes' = [probes EXCEPT ![p][t] = [NoThread EXCEPT !.st = "panicked"]]
    /\ overtaken' = (overtaken \/ \E u \in TestSet : /\ probes[p][u].st = "running"
                                                     /\ Before(children[p], u, t))
    /\ UNCHANGED <<args, alive, mainpc, mainIdx, mainChildren, reported, peerpc,
                   peerIdx, children, results>>
    /\ UNCHANGED probeVars

InitSched ==
    /\ ProbeStart("connect", "idle")
    /\ args \in CommandLines
    /\ alive = TRUE
    /\ mainpc = "spawn"
    /\ mainIdx = 1
    /\ mainChildren = <<>>
    /\ reported = <<>>
    /\ peerpc = [p \in PeerSet |-> "none"]
    /\ peerIdx = [p \in PeerSet |-> 1]
    /\ children = [p \in PeerSet |-> <<>>]
    /\ results = [p \in PeerSet |-> <<>>]
    /\ probes = [p \in PeerSet |-> [t \in TestSet |-> NoThread]]
    /\ overtaken = FALSE

NextSched ==
    \/ MainSpawn
    \/ MainJoin
    \/ MainExit
    \/ \E p \in PeerSet : PeerSpawn(p)
    \/ \E p \in PeerSet : PeerJoin(p)
    \/ \E p \in PeerSet : PeerReturn(p)
    \/ \E p \in PeerSet, t \in TestSet : RunTestConnect(p, t)
    \/ \E p \in PeerSet, t \in TestSet : RunTestScenario(p, t)
    \/ \E p \in PeerSet, t \in TestSet : RunTest(p, t)

SpecSched == InitSched /\ [][NextSched]_vars

----------------------------------------------------------------------------
(* Properties of the scheduler, checked under SpecSched *)

\* the filter as the command surface states it
Wanted(include, exclude, label) ==
    (include = {} \/ label \in include) /\ label \notin exclude
PeerWanted(p) == Wanted(args.include, args.exclude, p)
TestWanted(t) == Wanted(args.include_tests, args.exclude_tests, t)

\* what run_peer owes for its child t: the thread's own return value, CRASHED if it panicked
Owed(p, t) ==
    IF probes[p][t].st = "panicked" THEN <<t, "CRASHED">> ELSE probes[p][t].ret

\* C1: probe-worker isolation. A run_peer that returned has joined every probe
\* worker it spawned, the panicked ones included: its results hold, per child, that
\* child's own return value, and <<test, "CRASHED">> for a child that panicked. While
\* it joins, every entry pushed so far is of that kind, and a run_peer that
\* panicked did not do so in the middle of its join loop (no child's panic
\* propagates: it joined none or all of them).
C1_ProbeIsolation ==
    \A p \in PeerSet :
        /\ peerpc[p] \in {"join", "returned", "panicked"} =>
              /\ Len(results[p]) <= Len(children[p])
              /\ \A j \in 1..Len(results[p]) :
                    /\ probes[p][children[p][j]].st \in {"returned", "panicked"}
                    /\ results[p][j] = Owed(p, children[p][j])
        /\ peerpc[p] = "returned" => Len(results[p]) = Len(children[p])
        /\ peerpc[p] = "panicked" => Len(results[p]) \in {0, Len(children[p])}

\* a run_peer returned although a child it joined first had panicked, and the
\* sibling joined after it kept its own outcome
C1_Witness ==
    \E p \in PeerSet :
        /\ peerpc[p] = "returned"
        /\ Len(children[p]) >= 2
        /\ probes[p][children[p][1]].st = "panicked"
        /\ probes[p][children[p][2]].st = "returned"
        /\ results[p][1] = <<children[p][1], "CRASHED">>
        /\ results[p][2] = probes[p][children[p][2]].ret

C2_Complete ==
    \A p \in PeerSet :
        peerpc[p] = "returned" =>
            /\ \A t \in TestSet :
                  Cardinality({j \in 1..Len(results[p]) : results[p][j][1] = t})
                      = (IF TestWanted(t) THEN 1 ELSE 0)
            /\ \A j \in 1..Len(results[p]) : results[p][j][1] \in TestSet

C2_Stable ==
    \A p \in PeerSet :
        /\ Len(results'[p]) >= Len(results[p])
        /\ \A j \in 1..Len(results[p]) : results'[p][j] = results[p][j]

\* C2: exactly-once outcomes. When run_peer has returned, its results hold exactly
\* one entry for every test that passed the filters and none for any other test;
\* and no step ever changes or removes an entry already pushed.
C2_ExactlyOnce == [](C2_Complete) /\ [][C2_Stable]_vars

\* a run_peer returned one entry per filtered test, for a worker that returned
\* and for one that panicked, with a test filtered out
C2_Witness ==
    \E p \in PeerSet :
        /\ peerpc[p] = "returned"
        /\ Len(results[p]) = 2
        /\ \E t \in TestSet : ~TestWanted(t)
        /\ \E t \in TestSet : probes[p][t].st = "panicked"
        /\ \E t \in TestSet : probes[p][t].st = "returned"

\* C8: filtering at both levels. A peer main's spawn loop has passed is among
\* main's children iff (include is empty or holds its label) and exclude does not
\* hold it; a test run_peer's spawn loop has passed is among its children iff the
\* same holds of include_tests / exclude_tests; a thread exists only for a wanted
\* label. So include {"local"} spawns only "local", and with "h3" in
\* exclude_tests no h3 run_test thread is ever spawned.
C8_Filtering ==
    /\ \A i \in 1..Len(PeerTable) :
          (mainpc # "spawn" \/ i < mainIdx) =>
              ((\E j \in 1..Len(mainChildren) : mainChildren[j] = PeerTable[i])
                  <=> PeerWanted(PeerTable[i]))
    /\ \A p \in PeerSet :
          /\ peerpc[p] # "none" => PeerWanted(p)
          /\ \A i \in 1..Len(TESTS) :
                (peerpc[p] \in {"join", "returned"} \/ (peerpc[p] = "spawn" /\ i < peerIdx[p])) =>
                    ((\E j \in 1..Len(children[p]) : children[p][j] = TESTS[i])
                        <=> TestWanted(TESTS[i]))
          /\ \A t \in TestSet : probes[p][t].st # "none" => TestWanted(t)
    /\ args.include = {"local"} => \A j \in 1..Len(mainChildren) : mainChildren[j] = "local"
    /\ "h3" \in args.exclude_tests => \A p \in PeerSet : probes[p]["h3"].st = "none"

\* with include {"local"} and exclude_tests {"h3"}, main has spawned "local" alone
\* and its run_peer has spawned connect and h9 but not h3
C8_Witness ==
    /\ args.include = {"local"}
    /\ args.exclude = {}
    /\ args.include_tests = {}
    /\ args.exclude_tests = {"h3"}
    /\ mainpc = "exited"
    /\ mainChildren = <<"local">>
    /\ children["local"] = <<"connect", "h9">>
    /\ peerpc["quicly"] = "none"

\* C9: fan-in order. The entries of run_peer's results are in the order its
\* children were spawned, which is the order of TESTS, whatever the order in which
\* the run_test threads ended.
C9_FanInOrder ==
    \A p \in PeerSet :
        /\ \A j \in 1..Len(results[p]) : results[p][j][1] = children[p][j]
        /\ \A i, j \in 1..Len(children[p]) :
              i < j => \E a, b \in 1..Len(TESTS) :
                           a < b /\ TESTS[a] = children[p][i] /\ TESTS[b] = children[p][j]

\* the only run_peer returned its results in spawn order although one of its
\* run_test threads ended before a sibling spawned earlier
C9_Witness ==
    /\ overtaken
    /\ Len(mainChildren) = 1
    /\ peerpc[mainChildren[1]] = "returned"
    /\ Len(results[mainChildren[1]]) >= 2

\* C10: peer-level isolation, as claimed. When the process has ended, main has
\* waited for every peer worker it spawned, and has reported the results of every
\* one that returned, whether or not another peer worker panicked.
C10_PeerIsolation ==
    ~alive =>
        \A j \in 1..Len(mainChildren) :
            /\ peerpc[mainChildren[j]] \in {"returned", "panicked"}
            /\ peerpc[mainChildren[j]] = "returned" =>
                  \E k \in 1..Len(reported) :
                      reported[k] = <<mainChildren[j], results[mainChildren[j]]>>

Workers == PeerSet \X TestSet
Thread(w) == probes[w[1]][w[2]]

\* the worker is inside a driver loop
InLoop(w) == Thread(w).st = "running" /\ Thread(w).ran # <<>>

\* C13: exclusive ownership. Every worker inside a driver loop uses a socket and
\* a connection it made itself; no socket and no connection is held by two
\* workers, and no two workers are inside a driver loop on the same socket or
\* connection; the loops a worker has entered are the Connectivity loop, or the
\* Connectivity loop and after it the scenario loop (never for the connect test),
\* each on the worker's own socket and connection, the last one alone running.
C13_ExclusiveOwnership ==
    /\ \A w \in Workers :
          /\ InLoop(w) =>
                /\ Thread(w).chan.sock = <<w[1], w[2]>>
                /\ Thread(w).chan.conn = <<w[1], w[2]>>
          /\ \A i \in 1..Len(Thread(w).ran) : Thread(w).ran[i].chan = Thread(w).chan
          /\ Len(Thread(w).ran) <= 2
          /\ Len(Thread(w).ran) >= 1 => Thread(w).ran[1].loop = "connect"
          /\ Len(Thread(w).ran) = 2 =>
                (Thread(w).ran[2].loop = "scenario" /\ w[2] # "connect")
          /\ Thread(w).st # "running" => (Thread(w).ran = <<>> /\ Thread(w).chan = NoChannel)
    /\ \A w1, w2 \in Workers :
          (w1 # w2 /\ InLoop(w1) /\ InLoop(w2)) =>
              /\ Thread(w1).chan.sock # Thread(w2).chan.sock
              /\ Thread(w1).chan.conn # Thread(w2).chan.conn

\* two workers of one peer are inside driver loops at once, one in its scenario
\* loop and one in its Connectivity loop, each on its own socket and connection
C13_Witness ==
    \E p \in PeerSet :
        /\ probes[p]["connect"].st = "running"
        /\ Len(probes[p]["connect"].ran) = 1
        /\ probes[p]["h9"].st = "running"
        /\ Len(probes[p]["h9"].ran) = 2
        /\ probes[p]["h9"].ran[1].chan = probes[p]["h9"].ran[2].chan
        /\ probes[p]["connect"].chan # probes[p]["h9"].chan

----------------------------------------------------------------------------
(* Properties of one probe worker, checked under Spec *)

\* C3: as claimed. A worker whose handler stopped on an event for a stream id
\* outside its tracked set ends with a failure outcome, never "OK".
C3_UntrackedIsFailure ==
    (pc = "done" /\ untracked) => outcome # "OK"

\* C4: the h9 outcome. When test_h9 has returned after a successful Connectivity
\* phase, the outcome is "OK" iff the driver loop returned Ok, the fin of the
\* tracked stream was read and the bytes read from it, those of the read that
\* carried the fin included, are more than zero; a fin read with zero bytes in all
\* gives "Empty response".
C4_H9Outcome ==
    (test = "h9" /\ pc = "done" /\ phase = "scenario") =>
        /\ (outcome = "OK") <=> (loopRes = "Ok" /\ finSeen /\ got > 0)
        /\ (finSeen /\ got = 0) => outcome = "Empty response"
        /\ rbytes = got
        /\ rsfin = finSeen

\* test_h9 returned "Empty response" for a fin read with no byte before it
C4_Witness ==
    /\ test = "h9"
    /\ pc = "done"
    /\ phase = "scenario"
    /\ finSeen
    /\ got = 0
    /\ outcome = "Empty response"

\* C5: per-phase deadlines. Each driver loop measures from the instant it was
\* entered; a blocked recv gives up exactly at that instant plus the budget, so it
\* never blocks beyond (timeout - elapsed) of its own phase, whatever the
\* Connectivity phase used up; and a loop returns "Timed out" only when its own
\* phase has lasted the budget.
C5_PerPhaseDeadline ==
    /\ loops >= 1 => start = phaseBegan
    /\ pc = "recv" => (recvDeadline = phaseBegan + Timeout /\ now <= recvDeadline)
    /\ loopRes = "Timed out" => now - phaseBegan >= Timeout

\* the scenario loop is blocked in recv with budget left although the worker
\* has run for more than the budget in all
C5_Witness ==
    /\ phase = "scenario"
    /\ pc = "recv"
    /\ phaseBegan > 0
    /\ now > Timeout
    /\ now < recvDeadline

\* C6: unresponsive peer. The scenario phase is entered only after a datagram was
\* received in the Connectivity phase; and when run_test returns with no datagram
\* received and no receive error, it returns "ERROR: Timed out", after the budget
\* of the phase, with one driver loop run and no stream opened.
C6_UnresponsivePeer ==
    /\ (pc = "scenario" \/ phase = "scenario") => rx.connect >= 1
    /\ (pc = "done" /\ rx.connect = 0 /\ loopRes # "Read error") =>
          /\ outcome = "ERROR: Timed out"
          /\ phase = "connect"
          /\ loops = 1
          /\ streams = {}
          /\ rx.scenario = 0
          /\ now - phaseBegan >= Timeout

\* run_test returned the timeout of the Connectivity phase with nothing received
C6_Witness ==
    /\ pc = "done"
    /\ rx.connect = 0
    /\ outcome = "ERROR: Timed out"
    /\ test = "h9"

\* C7: as claimed. An h9 worker that connected and never read a fin ends with the
\* timeout outcome.
C7_NoFinIsTimeout ==
    (test = "h9" /\ pc = "done" /\ phase = "scenario" /\ ~finSeen) =>
        outcome = "ERROR: Timed out"

\* C7, amended. An h9 worker that connected and never read a fin never ends "OK":
\* its outcome is the timeout when the loop ran out of budget, however many bytes
\* were read; "ERROR: Read error" when recv failed; and when the loop returned Ok
\* (the engine reached Closed, or an event named an untracked stream) it is "Empty
\* response" with no byte read and "No FIN" otherwise.
C7_NoFinNeverOk ==
    (test = "h9" /\ pc = "done" /\ phase = "scenario" /\ ~finSeen) =>
        /\ outcome \in {"ERROR: Timed out", "ERROR: Read error", "Empty response", "No FIN"}
        /\ loopRes = "Timed out" => outcome = "ERROR: Timed out"
        /\ loopRes = "Read error" => outcome = "ERROR: Read error"
        /\ loopRes = "Ok" =>
              /\ state = "Closed" \/ untracked
              /\ outcome = IF got = 0 THEN "Empty response" ELSE "No FIN"

\* the h9 loop timed out with response bytes read and no fin
C7_Witness ==
    /\ test = "h9"
    /\ pc = "done"
    /\ phase = "scenario"
    /\ ~finSeen
    /\ got > 0
    /\ outcome = "ERROR: Timed out"

\* the size the last recv returned is one the loop drops
DroppedRead == lastRecv # <<>> /\ lastRecv[1] \in {0, BufLen}

\* C11: receive filtering, in both driver loops. After a read of exactly the
\* buffer's 2048 bytes, or of zero bytes, nothing is pending for the engine and
\* nothing is fed to it at the next feed step; the loop has not returned and goes
\* on to the handler (the engine is not Closed), and no error or outcome was
\* produced by it. Every datagram pending for the engine, and every datagram fed
\* to it, has a size strictly between 0 and 2048.
C11_ReceiveFiltering ==
    /\ \A i \in 1..Len(in_dgrams) : in_dgrams[i].len > 0 /\ in_dgrams[i].len < 2048
    /\ \A i \in 1..Len(fed) : fed[i].len > 0 /\ fed[i].len < 2048
    /\ DroppedRead =>
          /\ pc \in {"feed", "closed_check"}
          /\ in_dgrams = <<>>
          /\ fed = <<>>
          /\ state # "Closed"
          /\ loopRes = "none"
          /\ outcome = "none"
          /\ panicAt = "none"

\* the h3 loop dropped a read of 2048 bytes as its second read, fed nothing and
\* is about to go on
C11_Witness ==
    /\ test = "h3"
    /\ phase = "scenario"
    /\ pc = "closed_check"
    /\ lastRecv = <<2048>>
    /\ rx.scenario = 2
    /\ fed = <<>>

\* C12: as claimed. An h9 worker whose handler was given an event naming a stream
\* other than the one it opened stops its loop at that event and ends with a
\* failure outcome, never "OK".
C12_ForeignStreamStops ==
    (test = "h9" /\ phase = "scenario" /\ foreign) =>
        /\ pc \in {"output", "exit_check", "loop_ret", "done", "panicked"}
        /\ pc # "panicked" => exiting
        /\ pc = "done" => outcome # "OK"

\* C14: as claimed. A step that leaves the budget check with timeout - elapsed
\* less than or equal to zero returns the Timeout error: the loop has returned
\* "Timed out", recv was not entered and the worker did not panic.
C14_DeadlineCheck ==
    [][(pc = "budget" /\ Timeout - (now - start) <= 0 /\ pc' # "budget") =>
           (pc' = "loop_ret" /\ loopRes' = "Timed out")]_vars

\* C15: the Closed short-circuit. Whenever the engine is Closed, it became so in
\* the feed step of the current iteration, and that iteration consists of the feed
\* and the closed check alone: the handler was not called in it, process_output
\* and emit_packets were not called (nothing was sent), recv was not entered, and
\* once the closed check is done the loop has returned Ok with the state Closed.
C15_ClosedShortCircuit ==
    state = "Closed" =>
        /\ pc \in {"closed_check", "loop_ret", "done"}
        /\ steps = IF pc = "closed_check" THEN <<"feed">> ELSE <<"feed", "closed_check">>
        /\ emitted = 0
        /\ pc # "closed_check" => loopRes = "Ok"
        /\ loops \in {1, 2}

\* the scenario loop returned on Closed with outbound datagrams left in the engine
C15_Witness ==
    /\ state = "Closed"
    /\ pc = "loop_ret"
    /\ phase = "scenario"
    /\ outPending
    /\ loopRes = "Ok"
    /\ fed # <<>>

\* the steps of one iteration of the driver loop
IterationOrder ==
    <<"feed", "closed_check", "handle", "drain", "send", "exit_check", "budget", "recv">>

\* C16: iteration order and flush before stop. The steps of an iteration are
\* always an initial part of feed, closed check, handler, drain outbound, send,
\* stop check, budget check, receive, and the loop stands where that part ends.
\* When the handler signalled stop, the loop returns only after process_output
\* and emit_packets of that iteration: the engine holds no pending outbound
\* datagram, the close issued on the fin was sent, and the loop returned Ok with
\* the engine's state as it is.
C16_IterationOrder ==
    /\ Len(steps) <= Len(IterationOrder)
    /\ steps = SubSeq(IterationOrder, 1, Len(steps))
    /\ pc = "feed" => Len(steps) \in {0, 8}
    /\ pc = "closed_check" => Len(steps) = 1
    /\ pc = "handle" => Len(steps) = 2
    /\ pc = "output" => Len(steps) = 3
    /\ pc = "exit_check" => Len(steps) = 5
    /\ pc = "budget" => Len(steps) = 6
    /\ pc = "recv" => Len(steps) = 7
    /\ pc = "loop_ret" => Len(steps) \in {2, 6, 7, 8}
    /\ (pc = "loop_ret" /\ exiting) =>
          /\ Len(steps) = 6
          /\ ~outPending
          /\ loopRes = "Ok"
          /\ state \in {"Connected", "Closing"}
          /\ (phase = "scenario" /\ finSeen) => (emitted >= 1 /\ state = "Closing")

\* the h9 loop returned after the fin: the close was sent before it returned
C16_Witness ==
    /\ test = "h9"
    /\ pc = "loop_ret"
    /\ exiting
    /\ finSeen
    /\ emitted >= 1
    /\ state = "Closing"
    /\ steps = <<"feed", "closed_check", "handle", "drain", "send", "exit_check">>

C18_Gate ==
    /\ pc = "scenario" =>
          (loopRes = "Ok" /\ state = "Connected" /\ phase = "connect" /\ loops = 1)
    /\ phase = "scenario" => (loops = 2 /\ test # "connect")
    /\ test = "connect" => loops <= 1
    /\ (pc = "done" /\ phase = "connect") =>
          /\ loops = 1
          /\ IF loopRes = "Ok" /\ state = "Connected"
             THEN test = "connect" /\ outcome = "OK"
             ELSE /\ outcome # "OK"
                  /\ loopRes = "Ok" => (state \in {"Closing", "Closed"} /\ outcome = state)
                  /\ loopRes = "Timed out" => outcome = "ERROR: Timed out"
                  /\ loopRes = "Read error" => outcome = "ERROR: Read error"

C18_Entry ==
    (phase = "connect" /\ phase' = "scenario") =>
        (pc = "scenario" /\ loopRes = "Ok" /\ state = "Connected" /\ test # "connect")

\* C18: phase gating. A second driver loop is entered only by a worker whose
\* Connectivity loop returned Ok with the engine Connected, and every h9 or h3
\* worker for which it did so goes on to the scenario. A worker whose
\* Connectivity loop returned Ok with Closing or Closed, or an error, has returned
\* a failure outcome (the state's name, or "ERROR: ..." with the error) with one
\* loop run. The connect test returns "OK" exactly when the Connectivity loop
\* returned Ok with Connected, and never runs a second loop.
C18_PhaseGating == [](C18_Gate) /\ [][C18_Entry]_vars

\* an h9 worker whose Connectivity loop stopped on Closing returned "Closing"
\* without running the scenario
C18_Witness ==
    /\ test = "h9"
    /\ pc = "done"
    /\ phase = "connect"
    /\ loopRes = "Ok"
    /\ state = "Closing"
    /\ outcome = "Closing"
    /\ loops = 1
    /\ streams = {}

\* the last recv returned a datagram the loop keeps
KeptRead == lastRecv # <<>> /\ lastRecv[1] > 0 /\ lastRecv[1] < 2048

\* the datagram the loop makes of the last read
KeptDatagram == <<[src |-> "remote", dst |-> "local", len |-> lastRecv[1]]>>

C19_Core ==
    /\ Len(in_dgrams) <= 1
    /\ pc # "feed" => in_dgrams = <<>>
    /\ pc = "feed" => in_dgrams = (IF KeptRead THEN KeptDatagram ELSE <<>>)
    /\ pc = "closed_check" => fed = (IF KeptRead THEN KeptDatagram ELSE <<>>)
    /\ Len(fed) <= 1
    /\ pc = "feed" => fed = <<>>

\* C19: as claimed. The hand-off of C19_Core, and a datagram received in the
\* last read before the loop returned was not fed to the engine.
C19_LastReadNotFed ==
    /\ C19_Core
    /\ (pc = "loop_ret" /\ KeptRead) => fed = <<>>

\* C19, amended. Every datagram recv returns with 0 < size < 2048 is pending, alone
\* and tagged remote -> local, at the feed step of the iteration that follows, is
\* handed to the engine by that feed step, and is pending no more after it: the
\* buffer is empty after every feed step and never holds more than one datagram.
\* The loop never returns with a datagram received and not fed: a datagram
\* received in the last read before a return was fed by the feed step before the
\* return.
C19_HandOff ==
    /\ C19_Core
    /\ (pc = "loop_ret" /\ KeptRead) => fed = KeptDatagram
    /\ pc \in {"loop_ret", "scenario", "done"} => in_dgrams = <<>>

\* the loop returned on Closed right after it fed the datagram of its last read
C19_Witness ==
    /\ pc = "loop_ret"
    /\ lastRecv = <<2047>>
    /\ fed = <<[src |-> "remote", dst |-> "local", len |-> 2047]>>
    /\ in_dgrams = <<>>
    /\ state = "Closed"

\* C20: the h3 outcome. When test_h3 has returned after a successful Connectivity
\* phase, the outcome is a failure iff process_loop_h3 returned an error, and then
\* it is "ERROR: " with that error; whenever the loop returned a state, the
\* outcome is "OK", whether the handler stopped on the fin, stopped on an
\* untracked stream, or the engine reached Closed with nothing read.
C20_H3Outcome ==
    (test = "h3" /\ pc = "done" /\ phase = "scenario") =>
        /\ loopRes \in {"Ok", "Timed out", "Read error"}
        /\ (outcome = "OK") <=> (loopRes = "Ok")
        /\ loopRes = "Timed out" => outcome = "ERROR: Timed out"
        /\ loopRes = "Read error" => outcome = "ERROR: Read error"
        /\ loopRes = "Ok" => (finSeen \/ untracked \/ state = "Closed")

\* test_h3 returned "OK" for a connection closed before any fin or event on
\* another stream
C20_Witness ==
    /\ test = "h3"
    /\ pc = "done"
    /\ phase = "scenario"
    /\ outcome = "OK"
    /\ state = "Closed"
    /\ ~finSeen
    /\ ~untracked

\* the worker is inside a driver loop
InDriverLoop ==
    pc \in {"feed", "closed_check", "handle", "output", "exit_check", "budget", "recv"}

\* the clock of the model reaches the deadline of the current loop
ClockSuffices == phaseBegan + Timeout <= MaxClock

\* a call on the local socket or on the engine failed, and the worker panicked
LocalFailure == panicAt \in {"bind", "send", "read", "stream"}

\* C17: as claimed. While the clock advances, every driver loop entered
\* eventually returns (a state, Timeout or Read error), whatever the peer keeps
\* sending, unless a call on the local socket or the engine fails; a worker
\* enters at most two driver loops.
C17_Termination ==
    /\ [](loops <= 2)
    /\ []((InDriverLoop /\ ClockSuffices) =>
             <>(pc \in {"loop_ret", "scenario", "done"} \/ LocalFailure))

\* every driver loop entered ends: it returns, or the worker panics
LoopEnds ==
    []((InDriverLoop /\ ClockSuffices) => <>(pc \in {"loop_ret", "scenario", "done", "panicked"}))

\* every outcome of the worker is one the scheduler's run_test threads draw from
OutcomeKnown == pc = "done" => outcome \in Outcomes(test)

====
